---- MODULE Spec2Model ----
(***************************************************************************)
(* Metal rolls warehouse service: the rolls table, the four request        *)
(* handlers of routers/rolls.py, the session dependency of database.py     *)
(* and the configuration loader of config.py.                              *)
(***************************************************************************)
EXTENDS Integers, Sequences, FiniteSets, TLC

VARIABLES
    rolls,      \* the rows of table "rolls": a set of Roll records
    id_seq,     \* last value handed out by the primary-key sequence of rolls.id
    now,        \* the wall clock: [sec |-> whole seconds, micro |-> sub-second part]
    resp,       \* the request last served and the response it got (sequential service)
    queries,    \* number of database statements the request last served has issued
    pc,         \* concurrent service: position of each request
    req,        \* concurrent service: the request of each slot
    session,    \* concurrent service: the session get_db handed to each request
    sessions,   \* concurrent service: every session ever made, with its state
    db_roll,    \* concurrent service: the row object loaded in each request's session
    result,     \* concurrent service: the response of each finished request
    environ,    \* configuration: os.environ, a function from the set variables
    config_ini, \* configuration: the parsed config.ini, section -> option -> value
    db_config   \* configuration: outcome of get_db_config

vars == <<rolls, id_seq, now, resp, queries, pc, req, session, sessions,
          db_roll, result, environ, config_ini, db_config>>

seqVars == <<pc, req, session, sessions, db_roll, result>>
cfgVars == <<environ, config_ini, db_config>>

-----------------------------------------------------------------------------
(* Bounds of the model *)

MaxRolls == 2      \* rows the table may hold
MaxDay == 2        \* the clock runs over days 0..MaxDay
NReq == 2          \* concurrent requests

SecondsPerDay == 86400

-----------------------------------------------------------------------------
(* Optional values: Python None / SQL NULL *)

None == <<>>
Some(v) == <<v>>
Val(x) == x[1]

Min(S) == CHOOSE x \in S : \A y \in S : x <= y
Max(S) == CHOOSE x \in S : \A y \in S : x >= y

-----------------------------------------------------------------------------
(* models.py *)

\* datetime.now(timezone.utc).replace(microsecond=0): the sub-second part is dropped
get_utc_time(clock) == clock.sec

\* variant: a key generator that stops advancing after the first row
NewRollId_stuck(seq) == IF seq = 0 THEN 1 ELSE seq

\* the primary-key sequence of rolls.id
NewRollId(seq) == seq + 1

\* Roll(**roll.dict()) at INSERT: the sequence supplies id, the column default
\* supplies added_date, removed_date stays NULL

Roll(seq, length, weight, clock) ==
    [id |-> NewRollId(seq), length |-> length, weight |-> weight,
     added_date |-> get_utc_time(clock), removed_date |-> None]

-----------------------------------------------------------------------------
(* Exceptions and the two except clauses every handler ends with *)

HTTPException(status_code, detail) ==
    [type |-> "HTTPException", status_code |-> status_code, detail |-> detail]

SQLAlchemyError == [type |-> "SQLAlchemyError"]

Return(value) == [kind |-> "return", value |-> value]
Raise(exc) == [kind |-> "raise", exc |-> exc]

\* classes an `except Exception` clause catches
ExceptionSubclasses == {"HTTPException", "SQLAlchemyError"}

\* except SQLAlchemyError: ... 500 "Database error"
\* except Exception:       ... 500 "Unexpected error"
ExceptClauses(outcome) ==
    IF outcome.kind = "return" THEN outcome
    ELSE IF outcome.exc.type = "SQLAlchemyError"
         THEN Raise(HTTPException(500, "Database error"))
    ELSE IF outcome.exc.type \in ExceptionSubclasses
         THEN Raise(HTTPException(500, "Unexpected error"))
    ELSE outcome

\* the status line FastAPI answers with
StatusOf(outcome) ==
    IF outcome.kind = "return" THEN 200 ELSE outcome.exc.status_code

DetailOf(outcome) ==
    IF outcome.kind = "return" THEN "OK" ELSE outcome.exc.detail

Response(op, request, outcome) ==
    [op |-> op, request |-> request, status |-> StatusOf(outcome),
     detail |-> DetailOf(outcome),
     body |-> IF outcome.kind = "return" THEN Some(outcome.value) ELSE None]

-----------------------------------------------------------------------------
(* create_roll *)

\* variant: the check written with < in place of <=
CreateInvalid_strict(length, weight) == length < 0 \/ weight < 0

CreateInvalid(length, weight) == length <= 0 \/ weight <= 0

\* body of the try block; commit_fails: db.commit() raises SQLAlchemyError
create_roll_body(length, weight, commit_fails) ==
    IF CreateInvalid(length, weight)
    THEN Raise(HTTPException(400, "Length and weight must be positive"))
    ELSE IF commit_fails THEN Raise(SQLAlchemyError)
    ELSE Return(Roll(id_seq, length, weight, now))

create_roll(length, weight, commit_fails) ==
    LET body == create_roll_body(length, weight, commit_fails)
        outcome == ExceptClauses(body)
        flushed == ~CreateInvalid(length, weight)
    IN  /\ (flushed /\ ~commit_fails) => Cardinality(rolls) < MaxRolls
        /\ rolls' = IF body.kind = "return" THEN rolls \cup {body.value} ELSE rolls
        /\ id_seq' = IF body.kind = "return" THEN body.value.id ELSE id_seq
        \* db.commit() and db.refresh(); a failed commit is followed by db.rollback()
        /\ queries' = IF ~flushed THEN 0 ELSE 2
        /\ resp' = Response("create", [length |-> length, weight |-> weight], outcome)
        /\ UNCHANGED <<now, seqVars, cfgVars>>

-----------------------------------------------------------------------------
(* delete_roll *)

\* db.query(models.Roll).get(roll_id): the row with that primary key, or None
QueryGet(table, roll_id) ==
    IF \E r \in table : r.id = roll_id
    THEN Some(CHOOSE r \in table : r.id = roll_id)
    ELSE None

\* variant: the check of removed_date left out
delete_roll_check_once(loaded) ==
    IF loaded = None THEN Raise(HTTPException(404, "Roll not found"))
    ELSE Return(Val(loaded))

\* lines 39-42: the two checks made on the loaded row
delete_roll_check(loaded) ==
    IF loaded = None THEN Raise(HTTPException(404, "Roll not found"))
    ELSE IF Val(loaded).removed_date # None
         THEN Raise(HTTPException(400, "Roll already removed"))
    ELSE Return(Val(loaded))

\* line 44: the in-memory assignment
MarkRemoved(row, clock) == [row EXCEPT !.removed_date = Some(get_utc_time(clock))]

\* UPDATE rolls SET removed_date = ... WHERE rolls.id = ...
UpdateRow(table, row) ==
    {IF r.id = row.id THEN [r EXCEPT !.removed_date = row.removed_date] ELSE r :
        r \in table}

delete_roll_body(roll_id, commit_fails) ==
    LET checked == delete_roll_check(QueryGet(rolls, roll_id))
    IN  IF checked.kind = "raise" THEN checked
        ELSE IF commit_fails THEN Raise(SQLAlchemyError)
        ELSE Return(MarkRemoved(checked.value, now))

delete_roll(roll_id, commit_fails) ==
    LET body == delete_roll_body(roll_id, commit_fails)
        outcome == ExceptClauses(body)
        checked == delete_roll_check(QueryGet(rolls, roll_id))
    IN  /\ rolls' = IF body.kind = "return" THEN UpdateRow(rolls, body.value) ELSE rolls
        \* the SELECT of get(); then db.commit() and db.refresh() or db.rollback()
        /\ queries' = IF checked.kind = "raise" THEN 1 ELSE 3
        /\ resp' = Response("delete", [roll_id |-> roll_id], outcome)
        /\ UNCHANGED <<id_seq, now, seqVars, cfgVars>>

-----------------------------------------------------------------------------
(* get_rolls *)

Bound(column, op, value) == [column |-> column, op |-> op, value |-> value]

\* lines 71-96: one filter is appended for every bound that is not None
Filters(q) ==
    LET add(fs, opt, column, op) ==
            IF opt # None THEN Append(fs, Bound(column, op, Val(opt))) ELSE fs
        f1 == add(<<>>, q.id_start, "id", ">=")
        f2 == add(f1, q.id_end, "id", "<=")
        f3 == add(f2, q.length_start, "length", ">=")
        f4 == add(f3, q.length_end, "length", "<=")
        f5 == add(f4, q.weight_start, "weight", ">=")
        f6 == add(f5, q.weight_end, "weight", "<=")
        f7 == add(f6, q.added_start, "added_date", ">=")
        f8 == add(f7, q.added_end, "added_date", "<=")
        f9 == add(f8, q.removed_start, "removed_date", ">=")
    IN  add(f9, q.removed_end, "removed_date", "<=")

\* the value of a column of a row, NULL as None
Column(row, column) ==
    CASE column = "id" -> Some(row.id)
      [] column = "length" -> Some(row.length)
      [] column = "weight" -> Some(row.weight)
      [] column = "added_date" -> Some(row.added_date)
      [] column = "removed_date" -> row.removed_date

\* variant: exclusive bounds
SqlCompare_exclusive(x, op, value) ==
    /\ x # None
    /\ IF op = ">=" THEN Val(x) > value ELSE Val(x) < value

\* SQL comparison in a WHERE clause: a comparison with NULL does not select the row
SqlCompare(x, op, value) ==
    /\ x # None
    /\ IF op = ">=" THEN Val(x) >= value ELSE Val(x) <= value

\* db.query(models.Roll).filter(*filters).all()
QueryFilterAll(table, filters) ==
    {r \in table : \A i \in 1..Len(filters) :
        SqlCompare(Column(r, filters[i].column), filters[i].op, filters[i].value)}

get_rolls_body(q, query_fails) ==
    IF query_fails THEN Raise(SQLAlchemyError)
    ELSE Return(QueryFilterAll(rolls, Filters(q)))

get_rolls(q, query_fails) ==
    /\ queries' = 1
    /\ resp' = Response("list", q, ExceptClauses(get_rolls_body(q, query_fails)))
    /\ UNCHANGED <<rolls, id_seq, now, seqVars, cfgVars>>

-----------------------------------------------------------------------------
(* get_statistics *)

\* lines 118-124
presence_condition(r, start_date, end_date) ==
    /\ r.added_date <= end_date
    /\ \/ (r.removed_date # None /\ Val(r.removed_date) >= start_date)
       \/ r.removed_date = None

\* column BETWEEN a AND b; NULL is never between
Between(x, a, b) == x # None /\ a <= Val(x) /\ Val(x) <= b

\* the sum of a column over the rows S
RECURSIVE Sum(_, _)
Sum(S, column) ==
    IF S = {} THEN 0
    ELSE LET x == CHOOSE y \in S : TRUE IN x[column] + Sum(S \ {x}, column)

\* SQL aggregates over no rows are NULL; V is the set of the values aggregated
AggMin(V) == IF V = {} THEN None ELSE Some(Min(V))
AggMax(V) == IF V = {} THEN None ELSE Some(Max(V))
AggSum(S, column) == IF S = {} THEN None ELSE Some(Sum(S, column))
\* the average as the fraction <<sum, count>>
AggAvg(S, column) == IF S = {} THEN None ELSE Some(<<Sum(S, column), Cardinality(S)>>)

\* round(n / d, 2) in hundredths, ties to even
RoundHundredths(n, d) ==
    LET q == (n * 100) \div d
        r == (n * 100) % d
    IN  IF 2 * r < d THEN q
        ELSE IF 2 * r > d THEN q + 1
        ELSE IF q % 2 = 0 THEN q ELSE q + 1

\* lines 152-171: extract(epoch from max/min(removed_date - added_date)), in seconds;
\* the division by 86400 is carried by IntervalDays
interval_query(table, start_date, end_date) ==
    LET S == {r \in table : r.removed_date # None
                            /\ presence_condition(r, start_date, end_date)}
        dwells == {Val(r.removed_date) - r.added_date : r \in S}
    IN  [max_days |-> AggMax(dwells), min_days |-> AggMin(dwells)]

\* Python truth value of a number or None
Truthy(x) == x # None /\ Val(x) # 0

\* lines 173-183: round(days, 2) if days else None
IntervalDays(days) ==
    IF Truthy(days) THEN Some(RoundHundredths(Val(days), SecondsPerDay)) ELSE None

\* .astimezone(timezone.utc).date(): the calendar day of an instant
DateOf(t) == t \div SecondsPerDay

\* lines 188-205: one row per day of generate_series, LEFT JOIN rolls, ORDER BY day
DayRows(table, start_day, end_day) ==
    [i \in 1..(IF end_day >= start_day THEN end_day - start_day + 1 ELSE 0) |->
        LET d == start_day + i - 1
            present == {r \in table :
                          /\ r.added_date < (d + 1) * SecondsPerDay
                          /\ \/ (r.removed_date # None
                                 /\ Val(r.removed_date) >= d * SecondsPerDay)
                             \/ r.removed_date = None}
        IN  [day |-> d, rolls_count |-> Cardinality(present),
             total_weight |-> Sum(present, "weight")]]

\* lines 218-222 and 230-234: running minimum and the days attaining it
TrackMin(t, value, day) ==
    IF t.best = None \/ value < Val(t.best) THEN [best |-> Some(value), days |-> <<day>>]
    ELSE IF value = Val(t.best) THEN [t EXCEPT !.days = Append(@, day)]
    ELSE t

\* lines 224-228 and 236-240: running maximum and the days attaining it
TrackMax(t, value, day) ==
    IF t.best = None \/ value > Val(t.best) THEN [best |-> Some(value), days |-> <<day>>]
    ELSE IF value = Val(t.best) THEN [t EXCEPT !.days = Append(@, day)]
    ELSE t

\* lines 207-240: the scan over the rows
RECURSIVE ScanDays(_, _, _)
ScanDays(rows, i, st) ==
    IF i > Len(rows) THEN st
    ELSE ScanDays(rows, i + 1,
            [min_count  |-> TrackMin(st.min_count, rows[i].rolls_count, rows[i].day),
             max_count  |-> TrackMax(st.max_count, rows[i].rolls_count, rows[i].day),
             min_weight |-> TrackMin(st.min_weight, rows[i].total_weight, rows[i].day),
             max_weight |-> TrackMax(st.max_weight, rows[i].total_weight, rows[i].day)])

\* variant: the latest of the tied days
FirstDay_latest(t) ==
    IF t.days # <<>> THEN Some(Max({t.days[i] : i \in 1..Len(t.days)})) ELSE None

\* lines 242-245: min(days) if days else None
FirstDay(t) ==
    IF t.days # <<>> THEN Some(Min({t.days[i] : i \in 1..Len(t.days)})) ELSE None

StatsInvalid(start_date, end_date) == start_date > end_date

get_statistics_body(start_date, end_date, query_fails) ==
    IF StatsInvalid(start_date, end_date)
    THEN Raise(HTTPException(400, "Start date must be before end date"))
    ELSE IF query_fails THEN Raise(SQLAlchemyError)
    ELSE
    LET present == {r \in rolls : presence_condition(r, start_date, end_date)}
        iq == interval_query(rolls, start_date, end_date)
        rows == DayRows(rolls, DateOf(start_date), DateOf(end_date))
        empty == [best |-> None, days |-> <<>>]
        st == ScanDays(rows, 1, [min_count |-> empty, max_count |-> empty,
                                 min_weight |-> empty, max_weight |-> empty])
    IN  Return(
        [added_count |-> Cardinality({r \in rolls :
                            Between(Some(r.added_date), start_date, end_date)}),
         removed_count |-> Cardinality({r \in rolls :
                            Between(r.removed_date, start_date, end_date)}),
         avg_length |-> AggAvg(present, "length"),
         avg_weight |-> AggAvg(present, "weight"),
         min_length |-> AggMin({r.length : r \in present}),
         max_length |-> AggMax({r.length : r \in present}),
         min_weight |-> AggMin({r.weight : r \in present}),
         max_weight |-> AggMax({r.weight : r \in present}),
         total_weight |-> AggSum(present, "weight"),
         max_interval |-> IntervalDays(iq.max_days),
         min_interval |-> IntervalDays(iq.min_days),
         day_min_count |-> FirstDay(st.min_count),
         day_max_count |-> FirstDay(st.max_count),
         day_min_weight |-> FirstDay(st.min_weight),
         day_max_weight |-> FirstDay(st.max_weight)])

get_statistics(start_date, end_date, query_fails) ==
    LET body == get_statistics_body(start_date, end_date, query_fails)
    IN  \* two counts, the aggregates, the intervals, the day series
        /\ queries' = IF StatsInvalid(start_date, end_date) THEN 0
                      ELSE IF query_fails THEN 1 ELSE 5
        /\ resp' = Response("statistics",
                            [start_date |-> start_date, end_date |-> end_date],
                            ExceptClauses(body))
        /\ UNCHANGED <<rolls, id_seq, now, seqVars, cfgVars>>

-----------------------------------------------------------------------------
(* config.py *)

\* the four keys of the result, with the variable and option each is read from
ConfigKeys ==
    <<[key |-> "host", name |-> "DB_HOST"],
      [key |-> "database", name |-> "DB_NAME"],
      [key |-> "username", name |-> "DB_USER"],
      [key |-> "password", name |-> "DB_PASSWORD"]>>

ConfigNames == {ConfigKeys[i].name : i \in 1..Len(ConfigKeys)}

\* config.get(section, option)
ConfigGet(cfg, section, option) ==
    IF section \notin DOMAIN cfg THEN Raise([type |-> "NoSectionError"])
    ELSE IF option \notin DOMAIN cfg[section] THEN Raise([type |-> "NoOptionError"])
    ELSE Return(cfg[section][option])

\* os.getenv(name, default), its default already evaluated
Getenv(env, name, default) == IF name \in DOMAIN env THEN env[name] ELSE default

\* lines 10-15: the dictionary display, entry by entry; each entry evaluates
\* config.get(...) as the argument of os.getenv(...) before that is called
RECURSIVE ConfigEntries(_, _, _, _)
ConfigEntries(env, cfg, i, acc) ==
    IF i > Len(ConfigKeys) THEN Return(acc)
    ELSE LET default == ConfigGet(cfg, "database", ConfigKeys[i].name)
         IN  IF default.kind = "raise" THEN default
             ELSE ConfigEntries(env, cfg, i + 1,
                    [k \in DOMAIN acc \cup {ConfigKeys[i].key} |->
                        IF k = ConfigKeys[i].key
                        THEN Getenv(env, ConfigKeys[i].name, default.value)
                        ELSE acc[k]])

get_db_config(env, cfg) == ConfigEntries(env, cfg, 1, <<>>)

\* database.py line 8 runs get_db_config once, when the module is imported
LoadConfig ==
    /\ db_config = None
    /\ db_config' = Some(get_db_config(environ, config_ini))
    /\ UNCHANGED <<rolls, id_seq, now, resp, queries, seqVars, environ, config_ini>>

-----------------------------------------------------------------------------
(* database.py: get_db *)

\* variant: one module-level session handed to every request
SessionLocal_shared(ss) ==
    IF ss = <<>> THEN Append(ss, [state |-> "open", closes |-> 0]) ELSE ss

\* db = SessionLocal(): a session of its own for every call
SessionLocal(ss) == Append(ss, [state |-> "open", closes |-> 0])

\* finally: db.close()
CloseSession(ss, sid) ==
    [ss EXCEPT ![sid] = [state |-> "closed", closes |-> @.closes + 1]]

-----------------------------------------------------------------------------
(* The clock *)

\* the clock is read at midnight of a day or just after it, within the same second
ClockMicros == {0, 1}

Instants == {[sec |-> d * SecondsPerDay, micro |-> u] : d \in 0..MaxDay, u \in ClockMicros}

Later(a, b) == b.sec > a.sec \/ (b.sec = a.sec /\ b.micro > a.micro)

\* time passes between two requests
Tick ==
    /\ \E t \in Instants : Later(now, t) /\ now' = t
    /\ UNCHANGED <<rolls, id_seq, resp, queries, seqVars, cfgVars>>

-----------------------------------------------------------------------------
(* Request inputs *)

\* (length, weight) of a creation request
CreateInputs == {<<0, 5>>, <<2, -1>>, <<0, 0>>, <<1, 5>>, <<2, 1>>}
IdInputs == 1..(MaxRolls + 1)
\* midnight and noon of every day
TimeInputs ==
    {d * SecondsPerDay + o : d \in 0..MaxDay, o \in {0, SecondsPerDay \div 2}}

BoundNames ==
    {"id_start", "id_end", "length_start", "length_end", "weight_start",
     "weight_end", "added_start", "added_end", "removed_start", "removed_end"}

NoBounds == [b \in BoundNames |-> None]

\* the value each bound takes when it is supplied together with another one
BoundValue(b) ==
    CASE b = "id_start" -> 2
      [] b = "id_end" -> 2
      [] b = "length_start" -> 2
      [] b = "length_end" -> 1
      [] b = "weight_start" -> 1
      [] b = "weight_end" -> 4
      [] b = "added_start" -> SecondsPerDay \div 2
      [] b = "added_end" -> SecondsPerDay
      [] b = "removed_start" -> SecondsPerDay
      [] b = "removed_end" -> SecondsPerDay \div 2

\* query strings: any two of the ten bounds, and id_start = id_end = X
FilterInputs ==
    {[b \in BoundNames |-> IF b \in D THEN Some(BoundValue(b)) ELSE None] :
        D \in {E \in SUBSET BoundNames : Cardinality(E) <= 2}}
    \cup {[NoBounds EXCEPT !.id_start = Some(x), !.id_end = Some(x)] : x \in IdInputs}

FewFilters == {NoBounds} \cup {[NoBounds EXCEPT !.id_start = Some(1), !.id_end = Some(1)]}
FewTimes == {0, SecondsPerDay}

-----------------------------------------------------------------------------
(* The service, one request at a time *)

Requests == 1..NReq

InitTable ==
    /\ rolls = {}
    /\ id_seq = 0
    /\ now = [sec |-> 0, micro |-> 0]

InitSequential ==
    /\ resp = [op |-> "none", status |-> 0]
    /\ queries = 0

InitConcurrent ==
    /\ pc = [r \in Requests |-> "idle"]
    /\ req = [r \in Requests |-> None]
    /\ session = [r \in Requests |-> None]
    /\ sessions = <<>>
    /\ db_roll = [r \in Requests |-> None]
    /\ result = [r \in Requests |-> None]

\* a deployment with a complete config.ini and no variable set, already started
EnvValue(name) == <<"environ", name>>
IniValue(name) == <<"config.ini", name>>
FullIni == [s \in {"database"} |-> [n \in ConfigNames |-> IniValue(n)]]

InitConfig ==
    /\ environ = <<>>
    /\ config_ini = FullIni
    /\ db_config = Some(get_db_config(environ, config_ini))

Init == InitTable /\ InitSequential /\ InitConcurrent /\ InitConfig

Create == \E c \in CreateInputs, f \in BOOLEAN : create_roll(c[1], c[2], f)
Delete == \E roll_id \in IdInputs, f \in BOOLEAN : delete_roll(roll_id, f)

Next ==
    \/ Tick
    \/ Create
    \/ Delete
    \/ \E q \in FewFilters, f \in BOOLEAN : get_rolls(q, f)
    \/ \E s \in FewTimes, e \in FewTimes, f \in BOOLEAN : get_statistics(s, e, f)

Spec == Init /\ [][Next]_vars

\* the listing endpoint over the whole range of query strings
NextList ==
    \/ Tick
    \/ Create
    \/ Delete
    \/ \E q \in FilterInputs : get_rolls(q, FALSE)

SpecList == Init /\ [][NextList]_vars

\* the statistics endpoint
NextStats ==
    \/ Tick
    \/ Create
    \/ Delete
    \/ \E s \in TimeInputs, e \in TimeInputs : get_statistics(s, e, FALSE)

SpecStats == Init /\ [][NextStats]_vars

-----------------------------------------------------------------------------
(* Start-up under every environment and configuration file *)

InitStartup ==
    /\ InitTable /\ InitSequential /\ InitConcurrent
    /\ \E E \in SUBSET ConfigNames : environ = [n \in E |-> EnvValue(n)]
    /\ \/ config_ini = <<>>
       \/ \E O \in SUBSET ConfigNames :
             config_ini = [s \in {"database"} |-> [n \in O |-> IniValue(n)]]
    /\ db_config = None

NextStartup == LoadConfig

SpecStartup == InitStartup /\ [][NextStartup]_vars

-----------------------------------------------------------------------------
(* The service with requests in flight at the same time, each in its own    *)
(* session; the database runs at READ COMMITTED, the engine's default       *)

tableVars == <<rolls, id_seq>>

\* FastAPI resolves Depends(get_db) up to the yield
get_db_enter(r, request) ==
    /\ pc[r] = "idle"
    /\ sessions' = SessionLocal(sessions)
    /\ session' = [session EXCEPT ![r] = Some(Len(sessions'))]
    /\ req' = [req EXCEPT ![r] = Some(request)]
    /\ pc' = [pc EXCEPT ![r] = "handler"]
    /\ UNCHANGED <<tableVars, now, resp, queries, db_roll, result, cfgVars>>

\* create_roll, whole: one INSERT and its commit
create_roll_step(r, commit_fails) ==
    /\ pc[r] = "handler" /\ Val(req[r]).op = "create"
    /\ LET q == Val(req[r])
           body == create_roll_body(q.length, q.weight, commit_fails)
       IN  /\ body.kind = "return" => Cardinality(rolls) < MaxRolls
           /\ rolls' = IF body.kind = "return" THEN rolls \cup {body.value} ELSE rolls
           /\ id_seq' = IF body.kind = "return" THEN body.value.id ELSE id_seq
           /\ result' = [result EXCEPT ![r] =
                            Some(Response("create", q, ExceptClauses(body)))]
    /\ pc' = [pc EXCEPT ![r] = "finally"]
    /\ UNCHANGED <<now, resp, queries, req, session, sessions, db_roll, cfgVars>>

\* delete_roll lines 38-44: the SELECT, the two checks, the assignment in memory
delete_roll_load(r) ==
    /\ pc[r] = "handler" /\ Val(req[r]).op = "delete"
    /\ LET q == Val(req[r])
           checked == delete_roll_check(QueryGet(rolls, q.roll_id))
       IN  IF checked.kind = "raise"
           THEN /\ result' = [result EXCEPT ![r] =
                                Some(Response("delete", q, ExceptClauses(checked)))]
                /\ pc' = [pc EXCEPT ![r] = "finally"]
                /\ UNCHANGED db_roll
           ELSE /\ db_roll' = [db_roll EXCEPT ![r] = Some(MarkRemoved(checked.value, now))]
                /\ pc' = [pc EXCEPT ![r] = "commit"]
                /\ UNCHANGED result
    /\ UNCHANGED <<tableVars, now, resp, queries, req, session, sessions, cfgVars>>

\* delete_roll lines 46-48: db.commit() flushes the UPDATE, db.refresh() reads the row
delete_roll_commit(r, commit_fails) ==
    /\ pc[r] = "commit"
    /\ LET q == Val(req[r])
           written == UpdateRow(rolls, Val(db_roll[r]))
           body == IF commit_fails THEN Raise(SQLAlchemyError)
                   ELSE Return(Val(QueryGet(written, q.roll_id)))
       IN  /\ rolls' = IF commit_fails THEN rolls ELSE written
           /\ result' = [result EXCEPT ![r] =
                            Some(Response("delete", q, ExceptClauses(body)))]
    /\ pc' = [pc EXCEPT ![r] = "finally"]
    /\ UNCHANGED <<id_seq, now, resp, queries, req, session, sessions, db_roll, cfgVars>>

\* get_db after the yield: the finally clause, on return and on exception alike
get_db_exit(r) ==
    /\ pc[r] = "finally"
    /\ sessions' = CloseSession(sessions, Val(session[r]))
    /\ pc' = [pc EXCEPT ![r] = "done"]
    /\ UNCHANGED <<tableVars, now, resp, queries, req, session, db_roll, result, cfgVars>>

ConcurrentInputs ==
    {[op |-> "create", length |-> c[1], weight |-> c[2]] : c \in {<<0, 5>>, <<2, 1>>}}
    \cup {[op |-> "delete", roll_id |-> i] : i \in 1..2}

\* one roll is in the warehouse when the requests arrive
InitConcurrentService ==
    /\ rolls = {Roll(0, 1, 5, [sec |-> 0, micro |-> 0])}
    /\ id_seq = 1
    /\ now = [sec |-> 0, micro |-> 0]
    /\ InitSequential /\ InitConcurrent /\ InitConfig

NextConcurrent ==
    \/ Tick
    \/ \E r \in Requests, q \in ConcurrentInputs : get_db_enter(r, q)
    \/ \E r \in Requests, f \in BOOLEAN : create_roll_step(r, f)
    \/ \E r \in Requests : delete_roll_load(r)
    \/ \E r \in Requests, f \in BOOLEAN : delete_roll_commit(r, f)
    \/ \E r \in Requests : get_db_exit(r)

SpecConcurrent == InitConcurrentService /\ [][NextConcurrent]_vars

-----------------------------------------------------------------------------
(* Properties of the sequential service *)

\* a step that serves a request: the clock stands still while a handler runs
RequestStep == now' = now

HasRoll(table, id) == \E r \in table : r.id = id
RollOf(table, id) == CHOOSE r \in table : r.id = id

\* a request that fails input validation, judged on the table before the request
InvalidRequest(op, request, table) ==
    \/ op = "create" /\ (request.length <= 0 \/ request.weight <= 0)
    \/ op = "delete" /\ ~HasRoll(table, request.roll_id)
    \/ op = "delete" /\ HasRoll(table, request.roll_id)
                     /\ RollOf(table, request.roll_id).removed_date # None
    \/ op = "statistics" /\ request.start_date > request.end_date

\* C1: every input-validation failure is answered with its client-error status:
\* 400 for a create with length <= 0 or weight <= 0, 404 "Roll not found" for a
\* delete of an unknown id, 400 "Roll already removed" for a delete of a removed
\* roll, 400 for statistics with start_date > end_date; never 500.
C1_ValidationIsClientError ==
    [][RequestStep =>
        /\ (resp'.op = "create" /\ InvalidRequest("create", resp'.request, rolls))
              => resp'.status = 400
        /\ (resp'.op = "delete" /\ ~HasRoll(rolls, resp'.request.roll_id))
              => (resp'.status = 404 /\ resp'.detail = "Roll not found")
        /\ (resp'.op = "delete" /\ HasRoll(rolls, resp'.request.roll_id)
                /\ RollOf(rolls, resp'.request.roll_id).removed_date # None)
              => (resp'.status = 400 /\ resp'.detail = "Roll already removed")
        /\ (resp'.op = "statistics" /\ InvalidRequest("statistics", resp'.request, rolls))
              => resp'.status = 400
        /\ resp'.status = 500 => ~InvalidRequest(resp'.op, resp'.request, rolls)]_vars

\* C2: a request that fails input validation leaves the table as it was, and a
\* statistics request with start_date > end_date issues no database statement.
C2_ValidationFailureChangesNothing ==
    [][(RequestStep /\ InvalidRequest(resp'.op, resp'.request, rolls)) =>
        /\ rolls' = rolls
        /\ (resp'.op = "create" => queries' = 0)
        /\ (resp'.op = "statistics" => queries' = 0)]_vars

C2_Witness ==
    /\ resp.op = "delete"
    /\ HasRoll(rolls, resp.request.roll_id)
    /\ resp.status # 200
    /\ resp.detail = "Unexpected error"
    /\ Cardinality(rolls) = 2

DistinctIds == \A r1 \in rolls, r2 \in rolls : r1.id = r2.id => r1 = r2

\* C3: a create with length > 0 and weight > 0 whose commit succeeds adds exactly
\* one row; the returned record carries the input length and weight, added_date
\* is the clock reading in whole seconds, removed_date is null, and its id is the
\* id of no roll stored before; all stored rolls have pairwise distinct ids.
C3_CreateAddsOneFreshRoll ==
    [][/\ DistinctIds'
       /\ (RequestStep /\ resp'.op = "create"
             /\ ~InvalidRequest("create", resp'.request, rolls)
             /\ resp'.detail # "Database error") =>
            /\ resp'.status = 200
            /\ LET b == Val(resp'.body)
               IN  /\ b \notin rolls
                   /\ rolls' = rolls \cup {b}
                   /\ Cardinality(rolls') = Cardinality(rolls) + 1
                   /\ b.length = resp'.request.length
                   /\ b.weight = resp'.request.weight
                   /\ b.added_date = now.sec
                   /\ b.removed_date = None
                   /\ \A r \in rolls : r.id # b.id]_vars

C3_Witness ==
    /\ resp.op = "create"
    /\ resp.status = 200
    /\ Cardinality(rolls) = 2
    /\ Val(resp.body).id = 2

\* C4: a successful delete of a present roll sets its removed_date to a non-null
\* timestamp >= its added_date; a removed_date that is set is never changed or
\* reset; no request removes a row or changes id, length, weight or added_date.
C4_SoftDeleteIsOneWay ==
    [][/\ \A r \in rolls : \E k \in rolls' :
              /\ k.id = r.id /\ k.length = r.length /\ k.weight = r.weight
              /\ k.added_date = r.added_date
              /\ (r.removed_date # None => k.removed_date = r.removed_date)
       /\ (RequestStep /\ resp'.op = "delete" /\ resp'.status = 200) =>
              /\ HasRoll(rolls, resp'.request.roll_id)
              /\ RollOf(rolls, resp'.request.roll_id).removed_date = None
              /\ LET k == RollOf(rolls', resp'.request.roll_id)
                 IN  /\ k.removed_date # None
                     /\ Val(k.removed_date) >= k.added_date
                     /\ Val(resp'.body) = k]_vars

C4_Witness ==
    /\ resp.op = "delete"
    /\ resp.status # 200
    /\ HasRoll(rolls, resp.request.roll_id)
    /\ LET k == RollOf(rolls, resp.request.roll_id)
       IN  k.removed_date # None /\ Val(k.removed_date) > k.added_date
                                 /\ now.sec > Val(k.removed_date)

-----------------------------------------------------------------------------
(* Properties of the listing *)

\* a roll meets a query string: every supplied bound holds of a non-null field
MeetsBounds(r, q) ==
    /\ q.id_start # None => r.id >= Val(q.id_start)
    /\ q.id_end # None => r.id <= Val(q.id_end)
    /\ q.length_start # None => r.length >= Val(q.length_start)
    /\ q.length_end # None => r.length <= Val(q.length_end)
    /\ q.weight_start # None => r.weight >= Val(q.weight_start)
    /\ q.weight_end # None => r.weight <= Val(q.weight_end)
    /\ q.added_start # None => r.added_date >= Val(q.added_start)
    /\ q.added_end # None => r.added_date <= Val(q.added_end)
    /\ q.removed_start # None =>
          (r.removed_date # None /\ Val(r.removed_date) >= Val(q.removed_start))
    /\ q.removed_end # None =>
          (r.removed_date # None /\ Val(r.removed_date) <= Val(q.removed_end))

\* C5: get_rolls returns exactly the stored rolls that meet every supplied bound,
\* each *_start an inclusive >= and each *_end an inclusive <=; with no bound it
\* returns every roll, with id_start = id_end = X the roll with id X or nothing.
C5_ListReturnsExactlyTheMatches ==
    resp.op = "list" =>
        /\ resp.status = 200
        /\ Val(resp.body) = {r \in rolls : MeetsBounds(r, resp.request)}
        /\ resp.request = NoBounds => Val(resp.body) = rolls
        /\ \A x \in IdInputs :
              resp.request = [NoBounds EXCEPT !.id_start = Some(x), !.id_end = Some(x)]
                 => Val(resp.body) = {r \in rolls : r.id = x}

C5_Witness ==
    /\ resp.op = "list"
    /\ resp.request.removed_start # None
    /\ resp.request.length_end # None
    /\ Cardinality(rolls) = 2
    /\ Cardinality(Val(resp.body)) = 1
    /\ \E r \in rolls : r.removed_date = None

-----------------------------------------------------------------------------
(* Properties of the statistics *)

DayCount(d) ==
    Cardinality({r \in rolls :
        /\ r.added_date < (d + 1) * SecondsPerDay
        /\ (r.removed_date = None \/ Val(r.removed_date) >= d * SecondsPerDay)})

DayWeight(d) ==
    Sum({r \in rolls :
            /\ r.added_date < (d + 1) * SecondsPerDay
            /\ (r.removed_date = None \/ Val(r.removed_date) >= d * SecondsPerDay)},
        "weight")

\* the earliest day of D on which f is least
EarliestLeast(f) == Min({d \in DOMAIN f : \A e \in DOMAIN f : f[d] <= f[e]})
EarliestMost(f) == Min({d \in DOMAIN f : \A e \in DOMAIN f : f[d] >= f[e]})

\* C8: for start_date <= end_date the day series has one row per calendar day
\* from the start day to the end day, and the four extreme days are non-null and
\* are the earliest day with the least count, the most count, the least total
\* weight and the most total weight.
C8_ExtremeDaysAreTheEarliest ==
    (resp.op = "statistics" /\ resp.request.start_date <= resp.request.end_date) =>
        LET first == DateOf(resp.request.start_date)
            last == DateOf(resp.request.end_date)
            D == first..last
            rows == DayRows(rolls, first, last)
            b == Val(resp.body)
        IN  /\ resp.status = 200
            /\ Len(rows) = last - first + 1
            /\ Len(rows) >= 1
            /\ \A i \in 1..Len(rows) :
                  /\ rows[i].day = first + i - 1
                  /\ rows[i].rolls_count = DayCount(rows[i].day)
                  /\ rows[i].total_weight = DayWeight(rows[i].day)
            /\ b.day_min_count = Some(EarliestLeast([d \in D |-> DayCount(d)]))
            /\ b.day_max_count = Some(EarliestMost([d \in D |-> DayCount(d)]))
            /\ b.day_min_weight = Some(EarliestLeast([d \in D |-> DayWeight(d)]))
            /\ b.day_max_weight = Some(EarliestMost([d \in D |-> DayWeight(d)]))

C8_Witness ==
    /\ resp.op = "statistics"
    /\ resp.status = 200
    /\ DateOf(resp.request.end_date) - DateOf(resp.request.start_date) = 2
    /\ DayCount(0) = DayCount(1) /\ DayCount(1) = DayCount(2) /\ DayCount(0) = 1
    /\ Val(resp.body).day_min_count = Some(0)
    /\ Val(resp.body).day_max_weight = Some(1)
    /\ Val(resp.body).day_min_weight = Some(0)

\* removed rolls that meet the presence condition of the window
RemovedInWindow(start_date, end_date) ==
    {r \in rolls : /\ r.removed_date # None
                   /\ r.added_date <= end_date
                   /\ Val(r.removed_date) >= start_date}

\* C9: max_interval and min_interval are null exactly when no removed roll meets
\* the presence condition; otherwise they are the greatest and the least
\* removed_date - added_date of those rolls, a zero duration included.
C9_IntervalsNullOnlyWithoutRemovedRolls ==
    (resp.op = "statistics" /\ resp.status = 200) =>
        LET S == RemovedInWindow(resp.request.start_date, resp.request.end_date)
            dwells == {Val(r.removed_date) - r.added_date : r \in S}
            b == Val(resp.body)
        IN  /\ b.max_interval = None <=> S = {}
            /\ b.min_interval = None <=> S = {}
            /\ S # {} =>
                  /\ b.max_interval = Some(RoundHundredths(Max(dwells), SecondsPerDay))
                  /\ b.min_interval = Some(RoundHundredths(Min(dwells), SecondsPerDay))

-----------------------------------------------------------------------------
(* Properties of the sessions and of concurrent requests *)

\* C6: every request holds a session of its own, open while the request runs,
\* and closed exactly once when the request has ended, whatever its outcome.
C6_SessionClosedExactlyOnce ==
    /\ \A r \in Requests :
          /\ pc[r] = "idle" => session[r] = None
          /\ pc[r] \in {"handler", "commit", "finally"} =>
                sessions[Val(session[r])] = [state |-> "open", closes |-> 0]
          /\ pc[r] = "done" =>
                sessions[Val(session[r])] = [state |-> "closed", closes |-> 1]
    /\ \A r1 \in Requests, r2 \in Requests :
          (r1 # r2 /\ session[r1] # None) => session[r1] # session[r2]
    /\ Len(sessions) = Cardinality({r \in Requests : session[r] # None})

C6_Witness ==
    /\ \A r \in Requests : pc[r] = "done"
    /\ \E r \in Requests : Val(result[r]).detail = "Database error"
    /\ \E r \in Requests : Val(result[r]).detail = "Unexpected error"

\* C10: of two concurrent delete requests for the same present roll at most one
\* succeeds, and a removed_date that has been committed is not overwritten.
C10_ConcurrentDeleteWritesOnce ==
    [][/\ \A r \in rolls : \A k \in rolls' :
              (k.id = r.id /\ r.removed_date # None) => k.removed_date = r.removed_date
       /\ \A r1 \in Requests, r2 \in Requests :
              (/\ r1 # r2
               /\ result'[r1] # None /\ result'[r2] # None
               /\ Val(result'[r1]).op = "delete" /\ Val(result'[r2]).op = "delete"
               /\ Val(result'[r1]).request.roll_id = Val(result'[r2]).request.roll_id)
              => ~(Val(result'[r1]).status = 200 /\ Val(result'[r2]).status = 200)]_vars

-----------------------------------------------------------------------------
(* Properties of the configuration loader *)

Supplied(name) ==
    \/ name \in DOMAIN environ
    \/ ("database" \in DOMAIN config_ini /\ name \in DOMAIN config_ini["database"])

\* C7: get_db_config takes each key from its environment variable when that is
\* set and otherwise from the database section of config.ini, and fails exactly
\* when some key is supplied by neither.
C7_EnvironmentFirstThenFile ==
    db_config # None =>
        LET out == Val(db_config)
        IN  /\ out.kind = "raise" <=> \E n \in ConfigNames : ~Supplied(n)
            /\ out.kind = "return" =>
                  \A i \in 1..Len(ConfigKeys) :
                      out.value[ConfigKeys[i].key] =
                          IF ConfigKeys[i].name \in DOMAIN environ
                          THEN environ[ConfigKeys[i].name]
                          ELSE config_ini["database"][ConfigKeys[i].name]

====
